---- MODULE Spec2Model ----
(***************************************************************************)
(* Model of DefiLlamaClient.resolve_protocol (src/defillama.py): the       *)
(* protocols cache, the index construction, the matching tiers, the parent *)
(* aggregation and the suggestion path.                                    *)
(*                                                                         *)
(* Python strings are sequences of code points (naturals), so that         *)
(* lower(), strip(), replace(), split(), title() and difflib's similarity  *)
(* are computed character by character and string order is code point      *)
(* order.  A Python dict is the sequence of its <<key, value>> items in    *)
(* insertion order.  An optional value (None or a value) is the empty      *)
(* sequence or a one-element sequence.                                     *)
(***************************************************************************)
EXTENDS Integers, Sequences, FiniteSets, TLC

VARIABLES registry, cache, set_order, user_input, outcome, noted

vars == <<registry, cache, set_order, user_input, outcome, noted>>

(***************************************************************************)
(* Text literals: S(<<"a", "b">>) is the string "ab".                      *)
(***************************************************************************)
ORD ==
    [c \in {"a", "b", "v", "z", "A", "B", "V", "1", "2", "-", " ", "#",
            "p", "r", "e", "n", "t", "L", "D", "x", "X"} |->
        CASE c = "a" -> 97  [] c = "b" -> 98  [] c = "v" -> 118 [] c = "z" -> 122
          [] c = "A" -> 65  [] c = "B" -> 66  [] c = "V" -> 86
          [] c = "1" -> 49  [] c = "2" -> 50
          [] c = "-" -> 45  [] c = " " -> 32  [] c = "#" -> 35
          [] c = "p" -> 112 [] c = "r" -> 114 [] c = "e" -> 101
          [] c = "n" -> 110 [] c = "t" -> 116
          [] c = "L" -> 76  [] c = "D" -> 68
          [] c = "x" -> 120 [] c = "X" -> 88]

S(t) == [i \in 1..Len(t) |-> ORD[t[i]]]

None == <<>>
Some(x) == <<x>>

(***************************************************************************)
(* str methods (ASCII range).                                              *)
(***************************************************************************)
IsUpper(c) == c >= 65 /\ c <= 90
IsLower(c) == c >= 97 /\ c <= 122
IsSpace(c) == c \in {9, 10, 11, 12, 13, 28, 29, 30, 31, 32, 133, 160}

lower_char(c) == IF IsUpper(c) THEN c + 32 ELSE c
upper_char(c) == IF IsLower(c) THEN c - 32 ELSE c

lower(s) == [i \in 1..Len(s) |-> lower_char(s[i])]

RECURSIVE lstrip(_)
lstrip(s) == IF s # <<>> /\ IsSpace(Head(s)) THEN lstrip(Tail(s)) ELSE s

RECURSIVE rstrip(_)
rstrip(s) ==
    IF s # <<>> /\ IsSpace(s[Len(s)]) THEN rstrip(SubSeq(s, 1, Len(s) - 1)) ELSE s

strip(s) == rstrip(lstrip(s))

\* s.replace("-", " ")
hyphen_to_space(s) == [i \in 1..Len(s) |-> IF s[i] = 45 THEN 32 ELSE s[i]]

\* s.startswith(p)
startswith(s, p) == Len(s) >= Len(p) /\ SubSeq(s, 1, Len(p)) = p

\* s.split(sep)[0]: the text before the first occurrence of sep
split_head(s, sep) ==
    LET hits == {i \in 1..(Len(s) - Len(sep) + 1) :
                    SubSeq(s, i, i + Len(sep) - 1) = sep}
    IN IF hits = {} THEN s
       ELSE SubSeq(s, 1, (CHOOSE i \in hits : \A j \in hits : i <= j) - 1)

\* s.split("#", 1)[1] for a string that contains "#"
after_hash(s) ==
    LET hits == {i \in 1..Len(s) : s[i] = 35}
    IN SubSeq(s, (CHOOSE i \in hits : \A j \in hits : i <= j) + 1, Len(s))

\* s.title(): a cased character is upper-cased after an uncased one and
\* lower-cased after a cased one
title(s) ==
    [i \in 1..Len(s) |->
        IF i > 1 /\ (IsUpper(s[i - 1]) \/ IsLower(s[i - 1]))
        THEN lower_char(s[i]) ELSE upper_char(s[i])]

\* child_name.split(" V")[0].split(" v")[0].strip()
base_name(child_name) ==
    strip(split_head(split_head(child_name, <<32, 86>>), <<32, 118>>))

\* Python's order on str: lexicographic on code points
RECURSIVE str_less(_, _)
str_less(x, y) ==
    IF y = <<>> THEN FALSE
    ELSE IF x = <<>> THEN TRUE
    ELSE IF Head(x) # Head(y) THEN Head(x) < Head(y)
    ELSE str_less(Tail(x), Tail(y))

(***************************************************************************)
(* difflib.SequenceMatcher(a, b) without junk (isjunk is None, and the     *)
(* automatic junk heuristic needs len(b) >= 200).  Indices are Python's:   *)
(* 0-based, windows half-open.                                             *)
(***************************************************************************)
\* length of the common run of a[i:ahi] and b[j:bhi]
RECURSIVE run_length(_, _, _, _, _, _)
run_length(a, b, i, ahi, j, bhi) ==
    IF i < ahi /\ j < bhi /\ a[i + 1] = b[j + 1]
    THEN 1 + run_length(a, b, i + 1, ahi, j + 1, bhi)
    ELSE 0

\* SequenceMatcher.find_longest_match: <<i, j, k>>, the longest block, the
\* one starting earliest in a and, of those, earliest in b
find_longest_match(a, b, alo, ahi, blo, bhi) ==
    LET blocks == {<<i, j, run_length(a, b, i, ahi, j, bhi)>> :
                      i \in alo..(ahi - 1), j \in blo..(bhi - 1)}
        better(x, y) == \/ x[3] > y[3]
                        \/ x[3] = y[3] /\ x[1] < y[1]
                        \/ x[3] = y[3] /\ x[1] = y[1] /\ x[2] <= y[2]
    IN IF blocks = {} THEN <<alo, blo, 0>>
       ELSE LET best == CHOOSE x \in blocks : \A y \in blocks : better(x, y)
            IN IF best[3] = 0 THEN <<alo, blo, 0>> ELSE best

\* sum of the sizes of SequenceMatcher.get_matching_blocks()
RECURSIVE matching_size(_, _, _, _, _, _)
matching_size(a, b, alo, ahi, blo, bhi) ==
    LET m == find_longest_match(a, b, alo, ahi, blo, bhi)
        i == m[1]
        j == m[2]
        k == m[3]
    IN IF k = 0 THEN 0
       ELSE k
            + (IF alo < i /\ blo < j
               THEN matching_size(a, b, alo, i, blo, j) ELSE 0)
            + (IF i + k < ahi /\ j + k < bhi
               THEN matching_size(a, b, i + k, ahi, j + k, bhi) ELSE 0)

\* _calculate_ratio(matches, length) as the fraction <<numerator, denominator>>
calculate_ratio(matches, length) ==
    IF length > 0 THEN <<2 * matches, length>> ELSE <<1, 1>>

\* SequenceMatcher.ratio()
ratio(a, b) ==
    calculate_ratio(matching_size(a, b, 0, Len(a), 0, Len(b)), Len(a) + Len(b))

\* SequenceMatcher.quick_ratio(): the multiset intersection of the characters
quick_ratio(a, b) ==
    LET count(s, c) == Cardinality({i \in 1..Len(s) : s[i] = c})
        chars == {b[i] : i \in 1..Len(b)}
        used(i) == Cardinality({h \in 1..i : a[h] = a[i]})
        matches == Cardinality({i \in 1..Len(a) :
                                   a[i] \in chars /\ used(i) <= count(b, a[i])})
    IN calculate_ratio(matches, Len(a) + Len(b))

\* SequenceMatcher.real_quick_ratio()
real_quick_ratio(a, b) ==
    calculate_ratio(IF Len(a) < Len(b) THEN Len(a) ELSE Len(b), Len(a) + Len(b))

\* fraction >= pct / 100 (the cutoffs 0.85 and 0.4 are exact in hundredths)
at_least(fraction, pct) == fraction[1] * 100 >= pct * fraction[2]

frac_less(f, g) == f[1] * g[2] < g[1] * f[2]
frac_equal(f, g) == f[1] * g[2] = g[1] * f[2]

\* the (score, x) tuples order of heapq.nlargest
scored_less(e, f) ==
    \/ frac_less(e[1], f[1])
    \/ frac_equal(e[1], f[1]) /\ str_less(e[2], f[2])

\* the filter of difflib.get_close_matches: s.set_seq2(word), s.set_seq1(x)
is_close(x, word, cutoff) ==
    /\ at_least(real_quick_ratio(x, word), cutoff)
    /\ at_least(quick_ratio(x, word), cutoff)
    /\ at_least(ratio(x, word), cutoff)

\* the (score, x) tuple get_close_matches keeps for a possibility
scored(x, word) == <<ratio(x, word), x>>

\* e, kept at place h, comes out of heapq.nlargest before f, kept at place i
comes_before(e, h, f, i) == scored_less(f, e) \/ (e = f /\ h < i)

\* heapq.nlargest(n, result): the n greatest kept tuples, greatest first
nlargest(n, word, possibilities, kept) ==
    LET rank(i) == 1 + Cardinality({h \in kept :
                        comes_before(scored(possibilities[h], word), h,
                                     scored(possibilities[i], word), i)})
        size == IF Cardinality(kept) < n THEN Cardinality(kept) ELSE n
    IN [r \in 1..size |-> possibilities[CHOOSE i \in kept : rank(i) = r]]

\* difflib.get_close_matches(word, possibilities, n, cutoff): the n best
\* scoring possibilities at or above the cutoff, best first
get_close_matches(word, possibilities, n, cutoff) ==
    nlargest(n, word, possibilities,
             {i \in 1..Len(possibilities) :
                 is_close(possibilities[i], word, cutoff)})

(***************************************************************************)
(* Python dicts: the sequence of <<key, value>> items in insertion order.  *)
(* A registry record p is a function from the fields it has to their       *)
(* values; "category" holds an optional string (None is JSON null).        *)
(***************************************************************************)
dict_keys(d) == [i \in 1..Len(d) |-> d[i][1]]
dict_has(d, k) == \E i \in 1..Len(d) : d[i][1] = k
dict_get(d, k) == d[CHOOSE i \in 1..Len(d) : d[i][1] = k][2]
\* d[k] = v: a new key goes last, a known key keeps its place
dict_put(d, k, v) ==
    IF dict_has(d, k)
    THEN [i \in 1..Len(d) |-> IF d[i][1] = k THEN <<k, v>> ELSE d[i]]
    ELSE Append(d, <<k, v>>)

\* p.get(field, default)
get(p, field, default) == IF field \in DOMAIN p THEN p[field] ELSE default

\* "parent#"
PARENT_PREFIX == S(<<"p", "a", "r", "e", "n", "t", "#">>)

\* parent_ref and parent_ref.startswith("parent#")
is_parent_ref(parent_ref) ==
    parent_ref # <<>> /\ startswith(parent_ref, PARENT_PREFIX)

\* parent_ref.split("#", 1)[1].lower()
parent_slug_of(p) == lower(after_hash(get(p, "parentProtocol", <<>>)))

RECURSIVE slug_map(_)
slug_map(protocols) ==
    IF protocols = <<>> THEN <<>>
    ELSE LET p == protocols[Len(protocols)]
         IN dict_put(slug_map(SubSeq(protocols, 1, Len(protocols) - 1)),
                     lower(get(p, "slug", <<>>)), p)

\* mutant of name_map: the keys keep the case of the display names
RECURSIVE name_map_raw_keys(_)
name_map_raw_keys(protocols) ==
    IF protocols = <<>> THEN <<>>
    ELSE LET p == protocols[Len(protocols)]
         IN dict_put(name_map_raw_keys(SubSeq(protocols, 1, Len(protocols) - 1)),
                     get(p, "name", <<>>), p)

RECURSIVE name_map(_)
name_map(protocols) ==
    IF protocols = <<>> THEN <<>>
    ELSE LET p == protocols[Len(protocols)]
         IN dict_put(name_map(SubSeq(protocols, 1, Len(protocols) - 1)),
                     lower(get(p, "name", <<>>)), p)

\* parent_children: parent slug -> its members in snapshot order
RECURSIVE parent_children(_)
parent_children(protocols) ==
    IF protocols = <<>> THEN <<>>
    ELSE LET p == protocols[Len(protocols)]
             before == parent_children(SubSeq(protocols, 1, Len(protocols) - 1))
             ps == parent_slug_of(p)
         IN IF ~is_parent_ref(get(p, "parentProtocol", <<>>)) THEN before
            ELSE IF dict_has(before, ps)
                 THEN dict_put(before, ps, Append(dict_get(before, ps), p))
                 ELSE dict_put(before, ps, <<p>>)

\* parent_slugs (a set)
parent_slugs(protocols) ==
    {parent_slug_of(protocols[i]) : i \in {h \in 1..Len(protocols) :
        is_parent_ref(get(protocols[h], "parentProtocol", <<>>))}}

\* parent_name_map: lowercased base name of a member -> parent slug
RECURSIVE names_of_children(_, _, _)
names_of_children(d, ps, children) ==
    IF children = <<>> THEN d
    ELSE LET child == children[Len(children)]
             base == base_name(get(child, "name", <<>>))
         IN dict_put(names_of_children(d, ps,
                        SubSeq(children, 1, Len(children) - 1)),
                     lower(base), ps)

RECURSIVE parent_name_map(_)
parent_name_map(pc) ==
    IF pc = <<>> THEN <<>>
    ELSE names_of_children(parent_name_map(SubSeq(pc, 1, Len(pc) - 1)),
                           pc[Len(pc)][1], pc[Len(pc)][2])

(***************************************************************************)
(* Outcomes of a call: a returned dict, or the exception raised.  The      *)
(* message of ProtocolNotFoundError is kept as its two interpolated parts, *)
(* the input as given and the suggested names in order.                    *)
(***************************************************************************)
KeyError(field) == [kind |-> "KeyError", key |-> field]

ProtocolNotFoundError(input, suggestion_names) ==
    [kind |-> "ProtocolNotFoundError", input |-> input,
     suggestions |-> suggestion_names]

\* the dict returned for a record (steps 1, 2 and the fuzzy slug/name paths)
record_result(p) ==
    IF "slug" \notin DOMAIN p THEN KeyError("slug")
    ELSE IF "name" \notin DOMAIN p THEN KeyError("name")
    ELSE [kind |-> "result", slug |-> p.slug, name |-> p.name,
          is_parent |-> FALSE, children |-> <<>>,
          category |-> get(p, "category", None)]

\* mutant of most_common: of the values with the highest count, the one seen
\* last
most_common_last_seen(categories) ==
    LET count(c) == Cardinality({i \in 1..Len(categories) : categories[i] = c})
        first(c) == CHOOSE i \in 1..Len(categories) :
                       /\ categories[i] = c
                       /\ \A h \in 1..(i - 1) : categories[h] # c
        values == {categories[i] : i \in 1..Len(categories)}
    IN CHOOSE c \in values :
          \A d \in values :
             \/ count(c) > count(d)
             \/ count(c) = count(d) /\ first(c) >= first(d)

\* Counter(categories).most_common(1)[0][0]: the counts in first-seen order,
\* max() keeping the first of the highest
most_common(categories) ==
    LET count(c) == Cardinality({i \in 1..Len(categories) : categories[i] = c})
        first(c) == CHOOSE i \in 1..Len(categories) :
                       /\ categories[i] = c
                       /\ \A h \in 1..(i - 1) : categories[h] # c
        values == {categories[i] : i \in 1..Len(categories)}
    IN CHOOSE c \in values :
          \A d \in values :
             \/ count(c) > count(d)
             \/ count(c) = count(d) /\ first(c) <= first(d)

\* c.get("category") is truthy: neither None nor ""
has_category(c) ==
    get(c, "category", None) # None /\ get(c, "category", None) # Some(<<>>)

\* [c.get("category") for c in children if c.get("category")]
RECURSIVE categories_of(_)
categories_of(children) ==
    IF children = <<>> THEN <<>>
    ELSE LET rest == categories_of(Tail(children))
         IN IF has_category(Head(children))
            THEN <<Head(children).category[1]>> \o rest
            ELSE rest

\* the category of a parent result
parent_category(children) ==
    IF categories_of(children) # <<>>
    THEN Some(most_common(categories_of(children)))
    ELSE None

\* the display name of a parent result
parent_name(parent_slug, children) ==
    LET hits == {i \in 1..Len(children) :
                    lower(base_name(get(children[i], "name", <<>>)))
                        = hyphen_to_space(parent_slug)}
    IN IF hits = {} THEN title(hyphen_to_space(parent_slug))
       ELSE base_name(get(children[CHOOSE i \in hits : \A h \in hits : i <= h],
                          "name", <<>>))

\* parent_children.get(parent_slug, [])
children_of(parent_slug, pc) ==
    IF dict_has(pc, parent_slug) THEN dict_get(pc, parent_slug) ELSE <<>>

_build_parent_result(parent_slug, pc) ==
    LET children == children_of(parent_slug, pc)
        broken == {i \in 1..Len(children) :
                      {"name", "slug"} \ DOMAIN children[i] # {}}
    IN IF broken # {}
       THEN LET c == children[CHOOSE i \in broken : \A h \in broken : i <= h]
            IN IF "name" \notin DOMAIN c THEN KeyError("name")
               ELSE KeyError("slug")
       ELSE [kind |-> "result", slug |-> parent_slug,
             name |-> parent_name(parent_slug, children),
             is_parent |-> TRUE,
             children |-> [i \in 1..Len(children) |->
                              [name |-> children[i].name,
                               slug |-> children[i].slug]],
             category |-> parent_category(children)]

(***************************************************************************)
(* resolve_protocol, tier by tier.  A tier yields None when it does not    *)
(* match and Some(outcome) when it does.                                   *)
(***************************************************************************)
FUZZY_N == 5
FUZZY_CUTOFF == 85
SUGGEST_N == 3
SUGGEST_CUTOFF == 40

\* mutant of normalize: the input is stripped and its case kept
normalize_keep_case(input) == strip(input)

\* user_input.strip().lower()
normalize(input) == lower(strip(input))

\* the first tier that matched
either(first, second) == IF first # None THEN first ELSE second

\* the outcome of the first tier that matched, or else the rest of the method
or_else(tier, rest) == IF tier # None THEN tier[1] ELSE rest

\* "if k in d: ... d[k]"
lookup(d, k) == IF dict_has(d, k) THEN Some(dict_get(d, k)) ELSE None

\* the return of steps 1 and 2 for the record found
returned(found) ==
    IF found # None THEN Some(record_result(found[1])) ELSE None

\* mutant of exact_match: the name index is consulted before the slug index
exact_match_name_first(normalized, protocols) ==
    IF dict_has(name_map(protocols), normalized)
    THEN Some(record_result(dict_get(name_map(protocols), normalized)))
    ELSE IF dict_has(slug_map(protocols), normalized)
    THEN Some(record_result(dict_get(slug_map(protocols), normalized)))
    ELSE None

\* Steps 1 and 2: exact slug, then exact name
exact_match(normalized, protocols) ==
    returned(either(lookup(slug_map(protocols), normalized),
                    lookup(name_map(protocols), normalized)))

\* the orders in which a Python set can be iterated: the order depends on
\* the string hash seed of the process, so it is any enumeration of the set
iteration_orders(set) ==
    {order \in [1..Cardinality(set) -> set] :
        \A i, h \in 1..Cardinality(set) : i # h => order[i] # order[h]}

\* mutant of structural_match: only the verbatim parent slug matches
structural_match_verbatim(normalized, protocols, order) ==
    IF normalized \in parent_slugs(protocols) THEN Some(normalized) ELSE None

\* Step 3, first half: the parent slug verbatim, or with hyphens as spaces.
\* The loop over the set parent_slugs returns at the first slug that fits;
\* order is the order in which the set is iterated.
structural_match(normalized, protocols, order) ==
    LET fits == {i \in 1..Len(order) : normalized = hyphen_to_space(order[i])}
    IN IF normalized \in parent_slugs(protocols) THEN Some(normalized)
       ELSE IF fits # {}
       THEN Some(order[CHOOSE i \in fits : \A h \in fits : i <= h])
       ELSE None

\* mutant of derived_name_match: the group is looked up by the derived name
derived_name_match_key(normalized, protocols) ==
    LET pnm == parent_name_map(parent_children(protocols))
    IN IF dict_has(pnm, normalized) THEN Some(normalized) ELSE None

\* Step 3, second half: the display name derived from the members
derived_name_match(normalized, protocols) ==
    lookup(parent_name_map(parent_children(protocols)), normalized)

\* the return of step 3 for the parent slug found
built(found, pc) ==
    IF found # None THEN Some(_build_parent_result(found[1], pc)) ELSE None

parent_match(normalized, protocols, order) ==
    built(either(structural_match(normalized, protocols, order),
                 derived_name_match(normalized, protocols)),
          parent_children(protocols))

RECURSIVE dict_update(_, _)
dict_update(d, items) ==
    IF items = <<>> THEN d
    ELSE dict_put(dict_update(d, SubSeq(items, 1, Len(items) - 1)),
                  items[Len(items)][1], items[Len(items)][2])

\* {k: (kind, k) for k in keys}
tagged_keys(kind, keys) ==
    [i \in 1..Len(keys) |-> <<keys[i], <<kind, keys[i]>>>>]

\* {k: (kind, v) for k, v in d.items()}
tagged_values(kind, d) == [i \in 1..Len(d) |-> <<d[i][1], <<kind, d[i][2]>>>>]

\* all_candidates: key -> <<kind, key of that kind's index>>.  The parent
\* slugs are written in the order the set parent_slugs is iterated in.
all_candidates(protocols, order) ==
    dict_update(
      dict_update(
        dict_update(
          dict_update(<<>>, tagged_keys("slug", dict_keys(slug_map(protocols)))),
          tagged_keys("name", dict_keys(name_map(protocols)))),
        tagged_keys("parent", order)),
      tagged_values("parent", parent_name_map(parent_children(protocols))))

\* the build path of a candidate key
build_candidate(kind, key, protocols) ==
    IF kind = "parent"
    THEN _build_parent_result(key, parent_children(protocols))
    ELSE IF kind = "slug"
    THEN record_result(dict_get(slug_map(protocols), key))
    ELSE record_result(dict_get(name_map(protocols), key))

candidate_result(best, protocols, order) ==
    build_candidate(dict_get(all_candidates(protocols, order), best)[1],
                    dict_get(all_candidates(protocols, order), best)[2],
                    protocols)

\* Step 4: fuzzy matching
best_of(matches, protocols, order) ==
    IF matches # <<>> THEN Some(candidate_result(matches[1], protocols, order))
    ELSE None

fuzzy_match(normalized, protocols, order) ==
    best_of(get_close_matches(normalized,
                              dict_keys(all_candidates(protocols, order)),
                              FUZZY_N, FUZZY_CUTOFF),
            protocols, order)

\* mutant of suggestion_name: the lowercased name itself is suggested
suggestion_name_lowered(s, protocols) == Some(s)

\* the display name of the first record whose lowercased name is s
suggestion_name(s, protocols) ==
    LET p == protocols[CHOOSE i \in 1..Len(protocols) :
                 /\ lower(get(protocols[i], "name", <<>>)) = s
                 /\ \A h \in 1..(i - 1) :
                       lower(get(protocols[h], "name", <<>>)) # s]
    IN IF "name" \in DOMAIN p THEN Some(p.name) ELSE None

\* No match found: the suggestions and the exception
raise_not_found(input, suggestions, protocols) ==
    IF \E i \in 1..Len(suggestions) :
          suggestion_name(suggestions[i], protocols) = None
    THEN KeyError("name")
    ELSE ProtocolNotFoundError(input,
             [i \in 1..Len(suggestions) |->
                 suggestion_name(suggestions[i], protocols)[1]])

not_found(input, normalized, protocols) ==
    raise_not_found(input,
        get_close_matches(normalized,
            [i \in 1..Len(protocols) |->
                lower(get(protocols[i], "name", <<>>))],
            SUGGEST_N, SUGGEST_CUTOFF),
        protocols)

resolve_protocol(protocols, input, order) ==
    LET normalized == normalize(input)
        exact == exact_match(normalized, protocols)
        parent == parent_match(normalized, protocols, order)
        fuzzy == fuzzy_match(normalized, protocols, order)
    IN or_else(exact, or_else(parent, or_else(fuzzy,
           not_found(input, normalized, protocols))))

(***************************************************************************)
(* The client.  cache is _protocols_cache (None until the first fetch),    *)
(* registry is what GET /protocols answers, set_order is the order in      *)
(* which this process iterates the set parent_slugs of the cached snapshot *)
(* (fixed by the hash seed the process started with), user_input and       *)
(* outcome are the argument and the outcome of the last call.  noted       *)
(* remembers one call (its input, its outcome, the cache it left, whether  *)
(* another call followed it) for comparing repeated calls.                 *)
(***************************************************************************)
\* mutant of get_protocols_list: every call fetches
get_protocols_list_refetch(cached, fetched) == Some(fetched)

\* get_protocols_list: the value of _protocols_cache after the call
get_protocols_list(cached, fetched) ==
    IF cached = None THEN Some(fetched) ELSE cached

\* _get raises DefiLlamaAPIError for requests.ConnectionError, Timeout,
\* HTTPError and ValueError (bad JSON)
DefiLlamaAPIError == [kind |-> "DefiLlamaAPIError"]

\* any other exception of the transport (requests.TooManyRedirects, ...) is
\* not caught by _get and leaves resolve_protocol as it is
RequestException == [kind |-> "RequestException"]

FetchFailures == {DefiLlamaAPIError, RequestException}

\* a resolve_protocol call has run to its end on the cached snapshot
called ==
    /\ cache # None
    /\ outcome.kind \notin {"none", "DefiLlamaAPIError", "RequestException"}

\* client.get_protocols_list() on its own, the fetch succeeding when one is
\* made
GetProtocolsList ==
    /\ cache' = get_protocols_list(cache, registry)
    /\ UNCHANGED <<registry, set_order, user_input, outcome, noted>>

\* client.get_protocols_list() on its own, the fetch failing: the exception
\* leaves the client as it was
GetProtocolsListFails ==
    /\ cache = None
    /\ UNCHANGED vars

\* client.resolve_protocol(input), the fetch succeeding when one is made.
\* A snapshot that a call has iterated is iterated in the same order by
\* every later call.
Resolve(input) ==
    /\ cache' = get_protocols_list(cache, registry)
    /\ set_order' \in IF called /\ cache' = cache THEN {set_order}
                      ELSE iteration_orders(parent_slugs(cache'[1]))
    /\ user_input' = input
    /\ outcome' = resolve_protocol(cache'[1], input, set_order')

\* client.resolve_protocol(input), the fetch failing
ResolveFetchFails(input) ==
    /\ cache = None
    /\ cache' = cache
    /\ set_order' = set_order
    /\ user_input' = input
    /\ outcome' \in FetchFailures

(***************************************************************************)
(* Registries.  MaxRecords bounds the length of a snapshot.                *)
(***************************************************************************)
MaxRecords == 2

L == S(<<"L">>)
D == S(<<"D">>)

\* two members of parent "ab" whose slugs differ only in case
P1 == [slug |-> S(<<"a", "b", "-", "v", "1">>),
       name |-> S(<<"A", "b", " ", "V", "1">>),
       category |-> Some(L),
       parentProtocol |-> S(<<"p", "a", "r", "e", "n", "t", "#", "a", "b">>)]
P2 == [slug |-> S(<<"A", "b", "-", "V", "1">>),
       name |-> S(<<"A", "b", " ", "v", "2">>),
       category |-> Some(D),
       parentProtocol |-> S(<<"p", "a", "r", "e", "n", "t", "#", "A", "B">>)]
\* a member of parent "a-b" named like the slug with a space; no category
P3 == [slug |-> S(<<"a", "b", "v">>),
       name |-> S(<<"A", " ", "B">>),
       parentProtocol |-> S(<<"p", "a", "r", "e", "n", "t", "#", "a", "-", "b">>)]
\* a record named like P3's slug; its parent reference lacks the prefix
P4 == [slug |-> S(<<"a", "-", "b", "v">>),
       name |-> S(<<"A", "b", "v">>),
       category |-> Some(<<>>),
       parentProtocol |-> S(<<"a", "b">>)]
\* a member of parent "a-b"; shares P1's lowercased name; null category
P5 == [slug |-> S(<<"b", "-", "a">>),
       name |-> S(<<"A", "B", " ", "V", "1">>),
       category |-> None,
       parentProtocol |-> S(<<"p", "a", "r", "e", "n", "t", "#", "a", "-", "b">>)]
Pool == {P1, P2, P3, P4, P5}

SeqsUpTo(set, n) == UNION {[1..k -> set] : k \in 0..n}

Registries == SeqsUpTo(Pool, MaxRecords)

Inputs ==
    {S(<<"a", "b", "-", "v", "1">>), S(<<"A", "B", "-", "V", "1">>),
     S(<<" ", "a", "b", "v", " ">>), S(<<"A", "B", "V">>),
     S(<<"a", "b", " ", "v", "1">>), S(<<"A", "b", " ", "v", "2">>),
     S(<<"A", " ", "B">>), S(<<"a", "-", "b">>), S(<<"A", "B">>),
     S(<<"a", "b", "-", "v">>), S(<<"a", "b", " ", "v">>),
     S(<<"a", "-", "b", "b">>),
     S(<<"v", "z">>), S(<<"z", "z">>), S(<<" ", "A", "B", "z", "z">>),
     <<>>}

NoOutcome == [kind |-> "none"]

Init ==
    /\ registry \in Registries
    /\ cache = None
    /\ set_order = <<>>
    /\ user_input = <<>>
    /\ outcome = NoOutcome
    /\ noted = None

\* the remembered call has been followed by another call
Followed(n) == IF n = None THEN None ELSE Some([n[1] EXCEPT !.followed = TRUE])

Call(input) ==
    /\ Resolve(input)
    /\ noted' = Followed(noted)
    /\ UNCHANGED registry

CallFetchFails(input) == ResolveFetchFails(input) /\ UNCHANGED <<registry, noted>>

Next ==
    \/ GetProtocolsList
    \/ GetProtocolsListFails
    \/ \E input \in Inputs :
          \/ Call(input)
          \/ CallFetchFails(input)

Spec == Init /\ [][Next]_vars

(***************************************************************************)
(* Larger groups: up to MaxMembers records, all members of parent "ab",    *)
(* with the categories L, D, "" and null.                                  *)
(***************************************************************************)
MaxMembers == 4

P6 == [slug |-> S(<<"a", "b", "-", "2">>),
       name |-> S(<<"A", "b", " ", "2">>),
       category |-> Some(<<>>),
       parentProtocol |-> S(<<"p", "a", "r", "e", "n", "t", "#", "a", "b">>)]
P7 == [slug |-> S(<<"a", "b", "-", "1">>),
       name |-> S(<<"A", "b", " ", "1">>),
       category |-> None,
       parentProtocol |-> S(<<"p", "a", "r", "e", "n", "t", "#", "a", "b">>)]

GroupPool == {P1, P2, P6, P7}

GroupInputs ==
    {S(<<"a", "b">>), S(<<" ", "A", "B", "z", "z">>), S(<<"v", "1">>),
     S(<<"z", "z">>)}

InitGroup ==
    /\ registry \in SeqsUpTo(GroupPool, MaxMembers)
    /\ cache = None
    /\ set_order = <<>>
    /\ user_input = <<>>
    /\ outcome = NoOutcome
    /\ noted = None

NextGroup ==
    \/ GetProtocolsList
    \/ GetProtocolsListFails
    \/ \E input \in GroupInputs :
          \/ Call(input)
          \/ CallFetchFails(input)

SpecGroup == InitGroup /\ [][NextGroup]_vars

(***************************************************************************)
(* Registries with records that lack "slug" or "name".                     *)
(***************************************************************************)
MaxMalformed == 2

\* no slug
M1 == [name |-> S(<<"A", "b", " ", "V", "1">>), category |-> Some(L)]
\* no name
M2 == [slug |-> S(<<"a", "b", "v">>)]
\* a member of parent "ab" with no name
M3 == [slug |-> S(<<"a", "b", "-", "v", "2">>),
       parentProtocol |-> S(<<"p", "a", "r", "e", "n", "t", "#", "a", "b">>)]

MalformedPool == {M1, M2, M3, P3}

MalformedInputs ==
    {S(<<"a", "b", " ", "v", "1">>), S(<<"A", "B", "V">>), S(<<"a", "b">>),
     S(<<"a", "b", "v", "z">>), S(<<"a", "-", "b">>), S(<<"z", "z">>), <<>>}

InitMalformed ==
    /\ registry \in SeqsUpTo(MalformedPool, MaxMalformed)
    /\ cache = None
    /\ set_order = <<>>
    /\ user_input = <<>>
    /\ outcome = NoOutcome
    /\ noted = None

NextMalformed ==
    \/ GetProtocolsList
    \/ GetProtocolsListFails
    \/ \E input \in MalformedInputs :
          \/ Call(input)
          \/ CallFetchFails(input)

SpecMalformed == InitMalformed /\ [][NextMalformed]_vars

(***************************************************************************)
(* Parent slugs that meet once hyphens are read as spaces: "a-b-a" and     *)
(* "a b-a" both become "a b a", the group of "a-b" has a member named      *)
(* "A B", and the parent slug "ab-" ends with a hyphen.                    *)
(***************************************************************************)
MaxHyphen == 2

P8 == [slug |-> S(<<"a", "b", "a", "-", "1">>),
       name |-> S(<<"A", "b", "a", " ", "1">>),
       category |-> Some(L),
       parentProtocol |-> S(<<"p", "a", "r", "e", "n", "t", "#",
                              "a", "-", "b", "-", "a">>)]
P9 == [slug |-> S(<<"a", "b", "a", "-", "2">>),
       name |-> S(<<"A", "b", "a", " ", "2">>),
       category |-> Some(D),
       parentProtocol |-> S(<<"p", "a", "r", "e", "n", "t", "#",
                              "a", " ", "b", "-", "a">>)]

\* a member of the parent "ab-", whose slug ends with a hyphen
P10 == [slug |-> S(<<"x">>),
        name |-> S(<<"X">>),
        parentProtocol |-> S(<<"p", "a", "r", "e", "n", "t", "#",
                               "a", "b", "-">>)]

HyphenPool == {P3, P5, P8, P9, P10}

HyphenInputs ==
    {S(<<"a", "-", "b">>), S(<<"a", " ", "b">>), S(<<"A", "-", "B", " ">>),
     S(<<"a", "-", "b", "-", "a">>), S(<<"a", " ", "b", " ", "a">>),
     S(<<"a", " ", "b", "-", "a">>), S(<<"a", "b", "-">>),
     S(<<"a", "b", " ">>)}

InitHyphen ==
    /\ registry \in SeqsUpTo(HyphenPool, MaxHyphen)
    /\ cache = None
    /\ set_order = <<>>
    /\ user_input = <<>>
    /\ outcome = NoOutcome
    /\ noted = None

NextHyphen ==
    \/ GetProtocolsList
    \/ GetProtocolsListFails
    \/ \E input \in HyphenInputs :
          \/ Call(input)
          \/ CallFetchFails(input)

SpecHyphen == InitHyphen /\ [][NextHyphen]_vars

(***************************************************************************)
(* Repeated calls while the registry behind the API changes.               *)
(***************************************************************************)
MaxServed == 1

ServedRegistries == SeqsUpTo({P3, P4, P5}, MaxServed)

RepeatInputs == {S(<<"A", "B", "V">>), S(<<"a", "-", "b">>), S(<<"a", "b">>)}

\* the data GET /protocols answers changes
RegistryChange ==
    /\ registry' \in ServedRegistries \ {registry}
    /\ UNCHANGED <<cache, set_order, user_input, outcome, noted>>

\* a call that is remembered for later comparison
CallNoted(input) ==
    /\ Resolve(input)
    /\ noted' = Some([input |-> input, outcome |-> outcome',
                       snapshot |-> cache', followed |-> FALSE])
    /\ UNCHANGED registry

InitRepeat ==
    /\ registry \in ServedRegistries
    /\ cache = None
    /\ set_order = <<>>
    /\ user_input = <<>>
    /\ outcome = NoOutcome
    /\ noted = None

NextRepeat ==
    \/ RegistryChange
    \/ GetProtocolsList
    \/ GetProtocolsListFails
    \/ \E input \in RepeatInputs :
          \/ Call(input)
          \/ CallNoted(input)
          \/ CallFetchFails(input)

SpecRepeat == InitRepeat /\ [][NextRepeat]_vars

(***************************************************************************)
(* What the claims speak of, stated on the state after a call: the         *)
(* snapshot the call read, the normalized input, and the indices described *)
(* from the records rather than through the dicts above.                   *)
(***************************************************************************)
protocols == cache[1]
normalized == normalize(user_input)
Indices == 1..Len(protocols)

SlugKey(i) == lower(protocols[i].slug)
NameKey(i) == lower(protocols[i].name)
IsMember(i) ==
    /\ "parentProtocol" \in DOMAIN protocols[i]
    /\ is_parent_ref(protocols[i].parentProtocol)
ParentKeys == {parent_slug_of(protocols[i]) : i \in {h \in Indices : IsMember(h)}}
DerivedKeys ==
    {lower(base_name(protocols[i].name)) : i \in {h \in Indices : IsMember(h)}}
CandidateKeys ==
    {SlugKey(i) : i \in Indices} \cup {NameKey(i) : i \in Indices}
        \cup ParentKeys \cup DerivedKeys

\* no record has k as its lowercased slug or name
NoExactKey(k) == \A i \in Indices : SlugKey(i) # k /\ NameKey(i) # k

\* the input reaches the fuzzy tier: no exact and no parent tier matches
ReachesFuzzy ==
    /\ NoExactKey(normalized)
    /\ normalized \notin ParentKeys
    /\ \A q \in ParentKeys : hyphen_to_space(q) # normalized
    /\ normalized \notin DerivedKeys

\* similarity of a key to the normalized input, and the two thresholds
Similarity(k) == ratio(k, normalized)
WithinFuzzy(k) == at_least(Similarity(k), FUZZY_CUTOFF)
WithinSuggest(k) == at_least(Similarity(k), SUGGEST_CUTOFF)

\* o is the non-parent result of record p
IsResultOf(o, p) ==
    /\ o.kind = "result"
    /\ o.slug = p.slug
    /\ o.name = p.name
    /\ o.is_parent = FALSE
    /\ o.children = <<>>
    /\ o.category = get(p, "category", None)

NonParent(o) == o.kind = "result" /\ o.is_parent = FALSE /\ o.children = <<>>

\* C1: when the normalized input is a key of the slug index, the result is
\* the non-parent result of the record that index holds for it (the last
\* record with that lowercased slug), whatever else the input matches.
C1_ExactSlugWins ==
    called =>
        \A i \in Indices :
            (/\ SlugKey(i) = normalized
             /\ \A h \in Indices : h > i => SlugKey(h) # normalized)
            => IsResultOf(outcome, protocols[i])

\* C1 witness: the input is the slug of one record, the name of another and
\* within fuzzy range of a third key; the slug's record is returned.
C1_Witness ==
    /\ called
    /\ \E i, j \in Indices :
          /\ SlugKey(i) = normalized
          /\ NameKey(j) = normalized
          /\ protocols[j].slug # protocols[i].slug
          /\ IsResultOf(outcome, protocols[i])
          /\ ~IsResultOf(outcome, protocols[j])
    /\ \E k \in CandidateKeys : k # normalized /\ WithinFuzzy(k)

\* C2 as claimed: every case variant of every record's slug resolves to a
\* non-parent result with that record's slug.
C2_Claimed ==
    called =>
        \A i \in Indices :
            lower(user_input) = SlugKey(i)
            => NonParent(outcome) /\ outcome.slug = protocols[i].slug

\* the slug of record i is spelled the same in every record that has its
\* lowercased form, and has no surrounding whitespace
SlugSpelledOnce(i) ==
    /\ \A h \in Indices : SlugKey(h) = SlugKey(i)
                             => protocols[h].slug = protocols[i].slug
    /\ strip(protocols[i].slug) = protocols[i].slug

\* C2 (amended): every case variant of a record's slug resolves to a
\* non-parent result with that slug, provided no other record spells the
\* same lowercased slug differently and the slug has no surrounding
\* whitespace.
C2_AnyCaseSlug ==
    called =>
        \A i \in Indices :
            (lower(user_input) = SlugKey(i) /\ SlugSpelledOnce(i))
            => NonParent(outcome) /\ outcome.slug = protocols[i].slug

\* C2 witness: an input spelled differently from the slug resolves to it.
C2_Witness ==
    /\ called
    /\ \E i \in Indices :
          /\ lower(user_input) = SlugKey(i)
          /\ user_input # protocols[i].slug
          /\ SlugSpelledOnce(i)
          /\ NonParent(outcome)
          /\ outcome.slug = protocols[i].slug

\* no other record shares the lowercased name of record i
NameUnique(i) == \A h \in Indices : h # i => NameKey(h) # NameKey(i)

\* C3 as claimed: every case variant of the name of a record whose
\* lowercased name is unique resolves to a non-parent result with that name.
C3_Claimed ==
    called =>
        \A i \in Indices :
            (lower(user_input) = NameKey(i) /\ NameUnique(i))
            => NonParent(outcome) /\ outcome.name = protocols[i].name

\* the exact-slug tier does not answer the name of record i with a record of
\* another name, and the name has no surrounding whitespace
NameNotShadowed(i) ==
    /\ \A h \in Indices : SlugKey(h) = NameKey(i)
                             => protocols[h].name = protocols[i].name
    /\ strip(protocols[i].name) = protocols[i].name

\* C3 (amended): as claimed, provided also that the name has no surrounding
\* whitespace and that no record with a different name has the lowercased
\* name as its lowercased slug.
C3_AnyCaseName ==
    called =>
        \A i \in Indices :
            (lower(user_input) = NameKey(i) /\ NameUnique(i) /\ NameNotShadowed(i))
            => NonParent(outcome) /\ outcome.name = protocols[i].name

\* C3 witness: an input spelled differently from a unique name, not a slug of
\* the snapshot, resolves to the record of that name.
C3_Witness ==
    /\ called
    /\ \E i \in Indices :
          /\ lower(user_input) = NameKey(i)
          /\ user_input # protocols[i].name
          /\ NameUnique(i)
          /\ NameNotShadowed(i)
          /\ \A h \in Indices : SlugKey(h) # normalized
          /\ IsResultOf(outcome, protocols[i])

\* the amended C4's proviso on parent slug P: neither P nor P with spaces is
\* the lowercased slug or name of a record, P neither begins nor ends with
\* whitespace or a hyphen (strip() would cut the spaced form), and no other
\* parent slug is or becomes P with spaces
ReachesStructural(P) ==
    /\ NoExactKey(P)
    /\ NoExactKey(hyphen_to_space(P))
    /\ strip(P) = P
    /\ strip(hyphen_to_space(P)) = hyphen_to_space(P)
    /\ \A q \in ParentKeys :
          q # P => q # hyphen_to_space(P)
                   /\ hyphen_to_space(q) # hyphen_to_space(P)

\* C4 as claimed: for every parent slug P, resolving P and resolving P with
\* every hyphen replaced by a space give identical results.
C4_Claimed ==
    (called /\ user_input \in ParentKeys)
    => outcome = resolve_protocol(protocols, hyphen_to_space(user_input), set_order)

\* C4 (amended): resolving a parent slug P and resolving P with hyphens as
\* spaces give identical results, provided neither form is the lowercased
\* slug or name of a record, P neither begins nor ends with whitespace or a
\* hyphen, and no other parent slug is or becomes the spaced form.
C4_HyphenOrSpace ==
    (called /\ user_input \in ParentKeys /\ ReachesStructural(user_input))
    => /\ outcome = resolve_protocol(protocols, hyphen_to_space(user_input), set_order)
       /\ outcome.kind = "result"
       /\ outcome.is_parent
       /\ outcome.slug = user_input

\* C4, the case the proviso on other parent slugs leaves out: two parent
\* slugs become the input with hyphens as spaces, and the group returned for
\* the spaced form is the one the set iteration meets first, not P's.
C4_OrderWitness ==
    /\ called
    /\ user_input \in ParentKeys
    /\ NoExactKey(user_input)
    /\ NoExactKey(hyphen_to_space(user_input))
    /\ hyphen_to_space(user_input) \notin ParentKeys
    /\ outcome.slug = user_input
    /\ resolve_protocol(protocols, hyphen_to_space(user_input), set_order).kind
          = "result"
    /\ resolve_protocol(protocols, hyphen_to_space(user_input), set_order).slug
          # user_input

\* C4, the case the proviso on the ends of P leaves out: P ends with a
\* hyphen, the spaced form is stripped to something shorter and is not found.
C4_EdgeWitness ==
    /\ called
    /\ user_input \in ParentKeys
    /\ NoExactKey(user_input)
    /\ NoExactKey(hyphen_to_space(user_input))
    /\ strip(hyphen_to_space(user_input)) # hyphen_to_space(user_input)
    /\ outcome.kind = "result"
    /\ outcome.slug = user_input
    /\ resolve_protocol(protocols, hyphen_to_space(user_input), set_order).kind
          = "ProtocolNotFoundError"

\* C4 witness: a hyphenated parent slug resolved to its group.
C4_Witness ==
    /\ called
    /\ user_input \in ParentKeys
    /\ ReachesStructural(user_input)
    /\ hyphen_to_space(user_input) # user_input
    /\ outcome.kind = "result"
    /\ outcome.is_parent
    /\ outcome = resolve_protocol(protocols, hyphen_to_space(user_input), set_order)

\* the members of the group a parent result names, and those of them that
\* supply a category (neither absent, null nor empty)
GroupOf(o) ==
    {i \in Indices : IsMember(i) /\ parent_slug_of(protocols[i]) = o.slug}
Supplying(o) ==
    {i \in GroupOf(o) :
        /\ "category" \in DOMAIN protocols[i]
        /\ protocols[i].category # None
        /\ protocols[i].category # Some(<<>>)}
CategoryCount(o, c) ==
    Cardinality({i \in Supplying(o) : protocols[i].category = c})
FirstSeen(o, c) ==
    CHOOSE i \in Supplying(o) :
        /\ protocols[i].category = c
        /\ \A h \in Supplying(o) : protocols[h].category = c => i <= h

\* C5: the category of a parent result is the value most frequent among the
\* non-empty categories of the members, the first seen in snapshot order
\* among values of equal highest count, and None when no member has one.
C5_MajorityCategory ==
    (called /\ outcome.kind = "result" /\ outcome.is_parent)
    => IF Supplying(outcome) = {} THEN outcome.category = None
       ELSE /\ \E i \in Supplying(outcome) : protocols[i].category = outcome.category
            /\ \A h \in Supplying(outcome) :
                  LET c == outcome.category
                      d == protocols[h].category
                  IN \/ CategoryCount(outcome, c) > CategoryCount(outcome, d)
                     \/ /\ CategoryCount(outcome, c) = CategoryCount(outcome, d)
                        /\ FirstSeen(outcome, c) <= FirstSeen(outcome, d)

\* C5 witness: a group where the most frequent category is not the first
\* seen and a member has no category.
C5_Witness ==
    /\ called
    /\ outcome.kind = "result"
    /\ outcome.is_parent
    /\ Cardinality(Supplying(outcome)) >= 3
    /\ GroupOf(outcome) # Supplying(outcome)
    /\ \E i \in Supplying(outcome) :
          /\ protocols[i].category # outcome.category
          /\ \A h \in Supplying(outcome) : i <= h

\* C5 second case (a tie): two values of equal highest count, the first seen
\* returned.
C5_TieWitness ==
    /\ called
    /\ outcome.kind = "result"
    /\ outcome.is_parent
    /\ \E h \in Supplying(outcome) :
          /\ protocols[h].category # outcome.category
          /\ CategoryCount(outcome, protocols[h].category)
                = CategoryCount(outcome, outcome.category)

\* the candidate keys of highest similarity to the normalized input
TopKeys ==
    {k \in CandidateKeys :
        \A k2 \in CandidateKeys : ~frac_less(Similarity(k), Similarity(k2))}

\* the top key written first into all_candidates
FirstInserted ==
    LET keys == dict_keys(all_candidates(protocols, set_order))
        at(k) == CHOOSE i \in 1..Len(keys) : keys[i] = k
    IN CHOOSE k \in TopKeys : \A k2 \in TopKeys : at(k) <= at(k2)

\* the top key that is greatest in string order
GreatestKey == CHOOSE k \in TopKeys : \A k2 \in TopKeys : ~str_less(k, k2)

\* the result built by the path of key k's tag: a key that is a parent slug
\* or a derived name is tagged parent, else one that is a name is tagged
\* name, else slug
BuiltFrom(k) ==
    LET members(ps) == {i \in Indices : IsMember(i) /\ parent_slug_of(protocols[i]) = ps}
        last(set) == CHOOSE i \in set : \A h \in set : h <= i
        deriving == {i \in Indices : IsMember(i)
                                     /\ lower(base_name(protocols[i].name)) = k}
        \* parent_name_map is filled group by group, in the order the
        \* groups first appear, members in snapshot order
        first_of(ps) == CHOOSE i \in members(ps) : \A h \in members(ps) : i <= h
        latest == CHOOSE i \in deriving :
                     \A h \in deriving :
                        LET gi == first_of(parent_slug_of(protocols[i]))
                            gh == first_of(parent_slug_of(protocols[h]))
                        IN gh < gi \/ (gh = gi /\ h <= i)
        named == {i \in Indices : NameKey(i) = k}
        slugged == {i \in Indices : SlugKey(i) = k}
    IN IF deriving # {}
       THEN _build_parent_result(parent_slug_of(protocols[latest]),
                                 parent_children(protocols))
       ELSE IF k \in ParentKeys
       THEN _build_parent_result(k, parent_children(protocols))
       ELSE IF named # {} THEN record_result(protocols[last(named)])
       ELSE record_result(protocols[last(slugged)])

\* C6 as claimed: when the input reaches the fuzzy tier and some candidate
\* key has similarity at least 0.85, the call succeeds with the result of the
\* candidate of highest similarity, the first inserted among equals.
C6_Claimed ==
    (called /\ ReachesFuzzy /\ \E k \in CandidateKeys : WithinFuzzy(k))
    => outcome.kind = "result" /\ outcome = BuiltFrom(FirstInserted)

\* C6, what the code does in place of the claim: when the input reaches the
\* fuzzy tier and some candidate key has similarity at least 0.85, the call
\* succeeds with the result of the candidate of highest similarity; among
\* candidates of equal highest similarity the key that is greatest in string
\* (code point) order is taken, whatever the insertion order.
C6_FuzzyBest ==
    (called /\ ReachesFuzzy /\ \E k \in CandidateKeys : WithinFuzzy(k))
    => outcome.kind = "result" /\ outcome = BuiltFrom(GreatestKey)

\* C6, the diverging case: two keys tie at the top within fuzzy range, the
\* first inserted is not the greatest, and the greatest one's record is
\* returned.
C6_Witness ==
    /\ called
    /\ ReachesFuzzy
    /\ \E k \in CandidateKeys : WithinFuzzy(k)
    /\ Cardinality(TopKeys) > 1
    /\ FirstInserted # GreatestKey
    /\ BuiltFrom(FirstInserted) # BuiltFrom(GreatestKey)
    /\ outcome = BuiltFrom(GreatestKey)

\* C7: when no tier matches, the call raises ProtocolNotFound carrying the
\* input as given and at most three suggestions in order of similarity, each
\* the display name of a record whose lowercased name has similarity at
\* least 0.4 to the normalized input; there is a suggestion exactly when some
\* name reaches 0.4.
C7_NotFound ==
    (called /\ ReachesFuzzy /\ \A k \in CandidateKeys : ~WithinFuzzy(k))
    => /\ outcome.kind = "ProtocolNotFoundError"
       /\ outcome.input = user_input
       /\ Len(outcome.suggestions) <= 3
       /\ \A n \in 1..Len(outcome.suggestions) :
             \E i \in Indices :
                /\ protocols[i].name = outcome.suggestions[n]
                /\ WithinSuggest(NameKey(i))
       /\ \A n \in 1..(Len(outcome.suggestions) - 1) :
             ~frac_less(Similarity(lower(outcome.suggestions[n])),
                        Similarity(lower(outcome.suggestions[n + 1])))
       /\ (outcome.suggestions # <<>>)
             <=> (\E i \in Indices : WithinSuggest(NameKey(i)))

\* C7 witness: an input with padding and capitals is not found, more than
\* three names reach 0.4 and three are suggested.
C7_CapWitness ==
    /\ called
    /\ outcome.kind = "ProtocolNotFoundError"
    /\ user_input # normalized
    /\ outcome.input = user_input
    /\ Len(outcome.suggestions) = 3
    /\ Cardinality({NameKey(i) : i \in {h \in Indices : WithinSuggest(NameKey(h))}}) > 3

\* C8 as claimed: with records that lack "slug" or "name" in the snapshot, a
\* call either returns a result or raises ProtocolNotFound.
C8_Claimed ==
    called => outcome.kind \in {"result", "ProtocolNotFoundError"}

\* C9: a result is a parent result exactly when it lists children.
C9_ParentHasChildren ==
    (called /\ outcome.kind = "result")
    => (outcome.is_parent <=> outcome.children # <<>>)

\* C9 witness: a parent result reached by a derived name or a fuzzy match.
C9_Witness ==
    /\ called
    /\ outcome.kind = "result"
    /\ outcome.is_parent
    /\ normalized \notin ParentKeys
    /\ \A q \in ParentKeys : hyphen_to_space(q) # normalized
    /\ outcome.children # <<>>

\* C10: a call with the input of a remembered call yields the remembered
\* outcome, whatever calls were made in between and whatever the registry
\* behind the API has become; and the cache a call leaves is never changed by
\* a later call.
C10_SameOutcome ==
    /\ (called /\ noted # None /\ noted[1].input = user_input)
          => outcome = noted[1].outcome
    /\ noted # None => cache = noted[1].snapshot

\* C10 witness: the remembered call was repeated after other calls while the
\* registry now served would give another outcome.
C10_Witness ==
    /\ called
    /\ noted # None
    /\ noted[1].followed
    /\ noted[1].input = user_input
    /\ outcome = noted[1].outcome
    /\ cache[1] # registry
    /\ \A order \in iteration_orders(parent_slugs(registry)) :
          resolve_protocol(registry, user_input, order) # outcome

====
